---- MODULE Spec2Model ----
(***************************************************************************)
(* Model of the stateful document editing core of system-design-assist:    *)
(*   - ContextManager / SessionContext (backend/core/context_manager.py)   *)
(*   - the refine and section-regeneration handlers that drive it          *)
(*     (backend/api/refine.py, backend/api/section.py)                     *)
(*   - extract_section_from_markdown / merge_section_into_design           *)
(*     (backend/api/section.py)                                            *)
(*   - ReferenceStore, the SQLite cache of reference lists                 *)
(*     (backend/core/reference_store.py)                                   *)
(* Python str values are sequences of one-character strings; an            *)
(* Optional[str] is a sequence of length 0 (None) or 1.                    *)
(***************************************************************************)
EXTENDS Integers, Sequences, FiniteSets, TLC

\* ------------------------------------------------------------------ bounds
MaxHistory == 2      \* longest history the model lets a session grow to
NumThreads == 2      \* concurrent update_session calls in SpecConc
MaxLines == 3        \* longest markdown document (in lines) in SpecSection

\* ------------------------------------------------------------ input domains
Ids == {"s1", "s2"}
IdArgs == Ids \cup {""}
None == <<>>
Some(x) == <<x>>
OptIds == {None} \cup {Some(i) : i \in IdArgs}
Docs == {<<"v", "1">>, <<"v", "2">>}
Prompts == {<<"p">>, <<"q">>}

VARIABLES
    sessions,           \* context_manager.sessions of api/refine.py
    section_sessions,   \* context_manager.sessions of api/section.py
    last,               \* the call that ran last: its arguments and its result
    threads,            \* SpecConc: the position of each concurrent update_session call
    req_design,         \* SpecSection: the document given to the section functions
    req_section,        \* SpecSection: the section name given to them
    located,            \* SpecSection: the (before, section, after) tuple returned
    merged,             \* SpecSection: the result of merge_section_into_design
    pc,                 \* SpecSection: position of the locate-then-merge run
    locals,             \* SpecSection: section_start, section_end and
                        \* current_level of extract_section_from_markdown
    db,                 \* SpecCache: the rows of the references table in the
                        \* database file at db_path
    now,                \* SpecCache: the value datetime.now() returns
    written,            \* SpecCache: per query, the arguments and the time of
                        \* the last set call that met no storage failure
    handle,             \* SpecAlias: what a caller of get_session holds
    request             \* SpecRetrieve: the retrieval request being served

vars == <<sessions, section_sessions, last, threads, req_design, req_section,
          located, merged, pc, locals, db, now, written, handle, request>>

\* ------------------------------------------------------------ dict helpers
EmptyDict == [k \in {} |-> None]
DictSet(d, k, v) == [x \in (DOMAIN d) \cup {k} |-> IF x = k THEN v ELSE d[x]]
DictDel(d, k) == [x \in (DOMAIN d) \ {k} |-> d[x]]

\* `not session_id` for an Optional[str]: None and "" are falsy
Falsy(session_id) == session_id = None \/ session_id = Some("")

\* --------------------------------------------------------- SessionContext
SessionContext(session_id, base_prompt, latest_design) ==
    [session_id |-> session_id,
     base_prompt |-> base_prompt,
     latest_design |-> latest_design,
     history |-> <<>>]

add_to_history_newest(session, design) ==
    [session EXCEPT !.history = Append(@, design), !.latest_design = design]

add_to_history(session, design) ==
    [session EXCEPT !.history = Append(@, session.latest_design),
                    !.latest_design = design]

\* --------------------------------------------------------- ContextManager
\* Each operation maps the sessions dict to the new dict and the value returned.
\* uuid is the value str(uuid.uuid4()) produces in this call (used only when
\* no session id is supplied).
create_session(s, base_prompt, initial_design, session_id, uuid) ==
    LET sid == IF Falsy(session_id) THEN uuid ELSE session_id[1]
    IN  [sessions |-> DictSet(s, sid, SessionContext(sid, base_prompt, initial_design)),
         ret |-> sid]

get_session_pop(s, session_id) ==
    IF session_id \in DOMAIN s
    THEN [sessions |-> DictDel(s, session_id), ret |-> Some(s[session_id])]
    ELSE [sessions |-> s, ret |-> None]

get_session(s, session_id) ==
    [sessions |-> s,
     ret |-> IF session_id \in DOMAIN s THEN Some(s[session_id]) ELSE None]

update_session_upsert(s, session_id, updated_design, add) ==
    IF session_id \notin DOMAIN s
    THEN [sessions |-> DictSet(s, session_id,
                               SessionContext(session_id, <<>>, updated_design)),
          ret |-> TRUE]
    ELSE [sessions |-> [s EXCEPT ![session_id] =
                            IF add THEN add_to_history(@, updated_design)
                            ELSE [@ EXCEPT !.latest_design = updated_design]],
          ret |-> TRUE]

update_session(s, session_id, updated_design, add) ==
    IF session_id \notin DOMAIN s
    THEN [sessions |-> s, ret |-> FALSE]
    ELSE [sessions |-> [s EXCEPT ![session_id] =
                            IF add THEN add_to_history(@, updated_design)
                            ELSE [@ EXCEPT !.latest_design = updated_design]],
          ret |-> TRUE]

get_or_create_session_versioned(s, base_prompt, design, session_id, uuid) ==
    IF ~Falsy(session_id) /\ session_id[1] \in DOMAIN s
    THEN [sessions |-> update_session(s, session_id[1], design, TRUE).sessions,
          ret |-> session_id[1]]
    ELSE create_session(s, base_prompt, design, session_id, uuid)

get_or_create_session(s, base_prompt, design, session_id, uuid) ==
    IF ~Falsy(session_id) /\ session_id[1] \in DOMAIN s
    THEN [sessions |-> update_session(s, session_id[1], design, FALSE).sessions,
          ret |-> session_id[1]]
    ELSE create_session(s, base_prompt, design, session_id, uuid)

delete_session_clear(s, session_id) ==
    IF session_id \in DOMAIN s
    THEN [sessions |-> EmptyDict, ret |-> TRUE]
    ELSE [sessions |-> s, ret |-> FALSE]

delete_session(s, session_id) ==
    IF session_id \in DOMAIN s
    THEN [sessions |-> DictDel(s, session_id), ret |-> TRUE]
    ELSE [sessions |-> s, ret |-> FALSE]

\* uuid.uuid4(): a token no session of the store is keyed by
uuid4(s) == Ids \ DOMAIN s

\* ---------------------------------------------------- record of the last call
Call(op, session_id, base_prompt, design, add, ok, rid, got) ==
    [op |-> op, session_id |-> session_id, base_prompt |-> base_prompt,
     design |-> design, add |-> add, ok |-> ok, rid |-> rid, got |-> got]

NoCall == Call("none", None, <<>>, <<>>, FALSE, FALSE, None, None)

\* ------------------------------------------------- ReferenceStore domains
\* Time is counted in ticks, TicksPerDay of them to a calendar day.
TicksPerDay == 2
CACHE_EXPIRY_DAYS == 7
\* timedelta(days=CACHE_EXPIRY_DAYS)
Expiry == CACHE_EXPIRY_DAYS * TicksPerDay
\* the clock at the start: one tick into a day
StartTime == TicksPerDay + 1
\* the queries get is called with, and those among them that set is called
\* with or that the database file holds a row for at the start
Queries == {"Query", "query", "Query "}
CachedQueries == {"Query", "query"}
NothingWritten == [q \in CachedQueries |-> None]

\* no value obtained from get_session yet; no retrieval request yet
NoHandle == [kind |-> "none"]
NoRequest == [pc |-> "none"]

\* ------------------------------------------------------------------- Init
\* section_start = -1, section_end = -1, current_level = 0; the model numbers
\* lines from 1, so index i of the code is i + 1 here and -1 is 0
NoLocals == [section_start |-> 0, section_end |-> 0, current_level |-> 0]

IdleThreads == [t \in 1..NumThreads |->
                   [pc |-> "idle", session_id |-> "", design |-> <<>>, tmp |-> <<>>]]

Init ==
    /\ sessions = EmptyDict
    /\ section_sessions = EmptyDict
    /\ last = NoCall
    /\ threads = IdleThreads
    /\ req_design = <<>>
    /\ req_section = <<>>
    /\ located = <<>>
    /\ merged = <<>>
    /\ pc = "idle"
    /\ locals = NoLocals
    /\ db = {}
    /\ now = StartTime
    /\ written = NothingWritten
    /\ handle = NoHandle
    /\ request = NoRequest

\* ---------------------------------------------- ContextManager call actions
others == <<section_sessions, threads, req_design, req_section, located, merged, pc, locals,
            db, now, written, handle, request>>

\* a history is kept within MaxHistory entries
Room(s, session_id) ==
    session_id \in DOMAIN s => Len(s[session_id].history) < MaxHistory

CreateSession ==
    \E base_prompt \in Prompts, initial_design \in Docs, session_id \in OptIds :
      \E uuid \in (IF Falsy(session_id) THEN uuid4(sessions) ELSE {""}) :
        \E r \in {create_session(sessions, base_prompt, initial_design, session_id, uuid)} :
            /\ sessions' = r.sessions
            /\ last' = Call("create", session_id, base_prompt, initial_design, FALSE,
                            TRUE, Some(r.ret), None)
            /\ UNCHANGED others

GetSession ==
    \E session_id \in IdArgs :
        \E r \in {get_session(sessions, session_id)} :
            /\ sessions' = r.sessions
            /\ last' = Call("get", Some(session_id), <<>>, <<>>, FALSE,
                            r.ret # None, None, r.ret)
            /\ UNCHANGED others

UpdateSession ==
    \E session_id \in IdArgs, updated_design \in Docs, add \in BOOLEAN :
        /\ add => Room(sessions, session_id)
        /\ \E r \in {update_session(sessions, session_id, updated_design, add)} :
               /\ sessions' = r.sessions
               /\ last' = Call("update", Some(session_id), <<>>, updated_design, add,
                               r.ret, None, None)
               /\ UNCHANGED others

GetOrCreateSession ==
    \E base_prompt \in Prompts, design \in Docs, session_id \in OptIds :
      \E uuid \in (IF Falsy(session_id) THEN uuid4(sessions) ELSE {""}) :
        \E r \in {get_or_create_session(sessions, base_prompt, design, session_id, uuid)} :
            /\ sessions' = r.sessions
            /\ last' = Call("get_or_create", session_id, base_prompt, design, FALSE,
                            TRUE, Some(r.ret), None)
            /\ UNCHANGED others

DeleteSession ==
    \E session_id \in IdArgs :
        \E r \in {delete_session(sessions, session_id)} :
            /\ sessions' = r.sessions
            /\ last' = Call("delete", Some(session_id), <<>>, <<>>, FALSE,
                            r.ret, None, None)
            /\ UNCHANGED others

Next ==
    \/ CreateSession
    \/ GetSession
    \/ UpdateSession
    \/ GetOrCreateSession
    \/ DeleteSession

Spec == Init /\ [][Next]_vars

\* ======================================================== Python str helpers
NL == "\n"
\* the characters str.strip() removes and the regex class \s matches
Whitespace == {" ", "\t", "\n", "\r", "\f"}

Uppers == <<"A", "B", "C", "D", "E", "F", "G", "H", "I", "J", "K", "L", "M",
            "N", "O", "P", "Q", "R", "S", "T", "U", "V", "W", "X", "Y", "Z">>
Lowers == <<"a", "b", "c", "d", "e", "f", "g", "h", "i", "j", "k", "l", "m",
            "n", "o", "p", "q", "r", "s", "t", "u", "v", "w", "x", "y", "z">>

LowerChar(c) ==
    IF \E i \in 1..Len(Uppers) : Uppers[i] = c
    THEN Lowers[CHOOSE i \in 1..Len(Uppers) : Uppers[i] = c]
    ELSE c

\* str.lower()
lower(s) == [i \in 1..Len(s) |-> LowerChar(s[i])]

\* number of leading / trailing characters of s that are in chars
LeadingCount(s, chars) ==
    CHOOSE k \in 0..Len(s) :
        /\ \A i \in 1..k : s[i] \in chars
        /\ k < Len(s) => s[k + 1] \notin chars

TrailingCount(s, chars) ==
    CHOOSE k \in 0..Len(s) :
        /\ \A i \in (Len(s) - k + 1)..Len(s) : s[i] \in chars
        /\ k < Len(s) => s[Len(s) - k] \notin chars

\* str.lstrip(chars), str.rstrip(chars), str.strip()
lstrip(s, chars) == SubSeq(s, LeadingCount(s, chars) + 1, Len(s))
rstrip(s, chars) == SubSeq(s, 1, Len(s) - TrailingCount(s, chars))
strip(s) == rstrip(lstrip(s, Whitespace), Whitespace)

\* str.startswith(prefix)
startswith(s, prefix) ==
    Len(prefix) <= Len(s) /\ SubSeq(s, 1, Len(prefix)) = prefix

\* `sub in s`
contains(sub, s) ==
    \E i \in 0..(Len(s) - Len(sub)) : SubSeq(s, i + 1, i + Len(sub)) = sub

\* str.split('\n')
RECURSIVE split(_)
split(s) ==
    IF \E i \in 1..Len(s) : s[i] = NL
    THEN LET i == CHOOSE i \in 1..Len(s) :
                      s[i] = NL /\ \A j \in 1..(i - 1) : s[j] # NL
         IN  <<SubSeq(s, 1, i - 1)>> \o split(SubSeq(s, i + 1, Len(s)))
    ELSE <<s>>

\* sep.join(parts)
RECURSIVE join(_, _)
join(sep, parts) ==
    IF parts = <<>> THEN <<>>
    ELSE IF Len(parts) = 1 THEN parts[1]
    ELSE parts[1] \o sep \o join(sep, Tail(parts))

\* str.replace(' ', '\\s+'): every space becomes the three characters \ s +
RECURSIVE replace_spaces(_)
replace_spaces(s) ==
    IF s = <<>> THEN <<>>
    ELSE (IF s[1] = " " THEN <<"\\", "s", "+">> ELSE <<s[1]>>)
         \o replace_spaces(Tail(s))

\* re.match(rf"^#+\s*{re.escape(literal)}\s*$", line, re.IGNORECASE):
\* one or more '#', optional whitespace, the literal text compared without
\* regard to case, optional whitespace, end of line
re_match_heading(literal, line) ==
    \E h \in 1..Len(line), w \in 0..Len(line) :
        /\ h + w + Len(literal) <= Len(line)
        /\ \A i \in 1..h : line[i] = "#"
        /\ \A i \in (h + 1)..(h + w) : line[i] \in Whitespace
        /\ lower(SubSeq(line, h + w + 1, h + w + Len(literal))) = lower(literal)
        /\ \A i \in (h + w + Len(literal) + 1)..Len(line) : line[i] \in Whitespace

\* ============================================================ SectionEngine
\* the two entries of section_patterns, tried in order on each line
section_patterns_match(section_name, line) ==
    \/ re_match_heading(section_name, line)
    \/ re_match_heading(replace_spaces(section_name), line)

\* len(line) - len(line.lstrip('#'))
heading_level(line) == Len(line) - Len(lstrip(line, {"#"}))

\* the fuzzy match: the name occurs in the line and the stripped line starts
\* with '#'
fuzzy_match(section_name, line) ==
    /\ contains(lower(section_name), lower(line))
    /\ startswith(strip(line), <<"#">>)

\* first loop: the first line one of section_patterns matches (1-based; 0: none)
exact_start(lines, section_name) ==
    IF \E i \in 1..Len(lines) : section_patterns_match(section_name, lines[i])
    THEN CHOOSE i \in 1..Len(lines) :
             /\ section_patterns_match(section_name, lines[i])
             /\ \A j \in 1..(i - 1) : ~section_patterns_match(section_name, lines[j])
    ELSE 0

\* second loop: the first line the fuzzy match accepts (1-based; 0: none)
fuzzy_start(lines, section_name) ==
    IF \E i \in 1..Len(lines) : fuzzy_match(section_name, lines[i])
    THEN CHOOSE i \in 1..Len(lines) :
             /\ fuzzy_match(section_name, lines[i])
             /\ \A j \in 1..(i - 1) : ~fuzzy_match(section_name, lines[j])
    ELSE 0

\* the line extract_section_from_markdown settles on (1-based; 0: not found)
section_start(lines, section_name) ==
    IF exact_start(lines, section_name) # 0
    THEN exact_start(lines, section_name)
    ELSE fuzzy_start(lines, section_name)

\* the first line after start that is a heading of level <= current_level
\* (1-based), Len(lines) + 1 when there is none
section_end(lines, start, current_level) ==
    LET Ends(i) == LET line == strip(lines[i])
                   IN  /\ startswith(line, <<"#">>)
                       /\ heading_level(line) <= current_level
    IN  IF \E i \in (start + 1)..Len(lines) : Ends(i)
        THEN CHOOSE i \in (start + 1)..Len(lines) :
                 Ends(i) /\ \A j \in (start + 1)..(i - 1) : ~Ends(j)
        ELSE Len(lines) + 1

\* extract_section_from_markdown with the boundary heading left out of after
extract_section_from_markdown_skip_boundary(md, name) ==
    LET lines == split(md)
        start == section_start(lines, name)
    IN  IF start = 0 THEN <<md, <<>>, <<>>>>
        ELSE LET end == section_end(lines, start, heading_level(lines[start]))
             IN  <<join(<<NL>>, SubSeq(lines, 1, start - 1)),
                   join(<<NL>>, SubSeq(lines, start, end - 1)),
                   join(<<NL>>, SubSeq(lines, end + 1, Len(lines)))>>

extract_section_from_markdown(md, name) ==
    LET lines == split(md)
        start == section_start(lines, name)
    IN  IF start = 0 THEN <<md, <<>>, <<>>>>
        ELSE LET end == section_end(lines, start, heading_level(lines[start]))
             IN  <<join(<<NL>>, SubSeq(lines, 1, start - 1)),
                   join(<<NL>>, SubSeq(lines, start, end - 1)),
                   join(<<NL>>, SubSeq(lines, end, Len(lines)))>>

\* the values section_start, section_end and current_level hold when
\* extract_section_from_markdown returns
extract_locals(md, name) ==
    LET lines == split(md)
        start == section_start(lines, name)
    IN  IF start = 0 THEN NoLocals
        ELSE [section_start |-> start,
              section_end |-> section_end(lines, start, heading_level(lines[start])),
              current_level |-> heading_level(lines[start])]

merge_section_into_design_no_after(before, new_section, after) ==
    LET part(s) == IF strip(s) # <<>> THEN <<strip(s)>> ELSE <<>>
    IN  join(<<NL, NL>>, part(before) \o part(new_section))

merge_section_into_design_one_newline(before, new_section, after) ==
    LET part(s) == IF strip(s) # <<>> THEN <<strip(s)>> ELSE <<>>
    IN  join(<<NL>>, part(before) \o part(new_section) \o part(after))

merge_section_into_design(before, new_section, after) ==
    LET part(s) == IF strip(s) # <<>> THEN <<strip(s)>> ELSE <<>>
    IN  join(<<NL, NL>>, part(before) \o part(new_section) \o part(after))

\* ====================================== concurrent update_session (SpecConc)
\* N callers run update_session(session_id, design, add_to_history=True) on one
\* ContextManager with no synchronisation; a step is one read or write of the
\* shared dict or of a SessionContext field.
ConcStore ==
    create_session(
        create_session(EmptyDict, <<"p">>, <<"v", "1">>, Some("s1"), "").sessions,
        <<"q">>, <<"v", "2">>, Some("s2"), "").sessions

ThreadDocs == {<<"d", "1">>, <<"d", "2">>}

InitConc ==
    /\ sessions = ConcStore
    /\ section_sessions = EmptyDict
    /\ last = NoCall
    /\ threads \in [1..NumThreads ->
                      {[pc |-> "start", session_id |-> i, design |-> d, tmp |-> <<>>] :
                          i \in IdArgs, d \in ThreadDocs}]
    /\ req_design = <<>>
    /\ req_section = <<>>
    /\ located = <<>>
    /\ merged = <<>>
    /\ pc = "idle"
    /\ locals = NoLocals
    /\ db = {}
    /\ now = StartTime
    /\ written = NothingWritten
    /\ handle = NoHandle
    /\ request = NoRequest

conc_others == <<section_sessions, last, req_design, req_section, located, merged, pc, locals,
                 db, now, written, handle, request>>

\* session = self.sessions.get(session_id); if not session: return False
ConcLookup(t) ==
    /\ threads[t].pc = "start"
    /\ threads' = [threads EXCEPT ![t].pc =
                      IF threads[t].session_id \in DOMAIN sessions
                      THEN "read" ELSE "not_found"]
    /\ UNCHANGED <<sessions, conc_others>>

\* the argument of history.append is evaluated: self.latest_design is read
ConcRead(t) ==
    /\ threads[t].pc = "read"
    /\ threads' = [threads EXCEPT ![t].pc = "append",
                                  ![t].tmp = sessions[threads[t].session_id].latest_design]
    /\ UNCHANGED <<sessions, conc_others>>

\* self.history.append(<value read>)
ConcAppend(t) ==
    /\ threads[t].pc = "append"
    /\ sessions' = [sessions EXCEPT ![threads[t].session_id].history =
                       Append(@, threads[t].tmp)]
    /\ threads' = [threads EXCEPT ![t].pc = "write"]
    /\ UNCHANGED conc_others

\* self.latest_design = design; return True
ConcWrite(t) ==
    /\ threads[t].pc = "write"
    /\ sessions' = [sessions EXCEPT ![threads[t].session_id].latest_design =
                       threads[t].design]
    /\ threads' = [threads EXCEPT ![t].pc = "done"]
    /\ UNCHANGED conc_others

NextConc ==
    \E t \in 1..NumThreads :
        \/ ConcLookup(t)
        \/ ConcRead(t)
        \/ ConcAppend(t)
        \/ ConcWrite(t)

SpecConc == InitConc /\ [][NextConc]_vars

\* ================================================= request handlers (SpecHandlers)
\* refine_design: get_or_create_session with the refined design, then
\* update_session with the same design and add_to_history=True
refine_design(s, instruction, refined_design, session_id, uuid) ==
    LET r1 == get_or_create_session(s, instruction, refined_design, session_id, uuid)
        r2 == update_session(r1.sessions, r1.ret, refined_design, TRUE)
    IN  [sessions |-> r2.sessions, ret |-> r1.ret]

\* regenerate_section, first half: locate the section in the previous design
\* and merge the regenerated section between before and after
updated_design_of(previous_design, name, regenerated) ==
    LET parts == extract_section_from_markdown(previous_design, name)
    IN  merge_section_into_design(parts[1], regenerated, parts[3])

\* regenerate_section, second half: store the updated design as refine does
regenerate_section(s, instruction, updated_design, session_id, uuid) ==
    LET r1 == get_or_create_session(s, instruction, updated_design, session_id, uuid)
        r2 == update_session(r1.sessions, r1.ret, updated_design, TRUE)
    IN  [sessions |-> r2.sessions, ret |-> r1.ret]

\* request.previous_design, request.section_name and the text the AI client
\* returns for the section
HandlerDesigns == {<<"#", " ", "A", NL, "x", NL, "#", " ", "B", NL, "y">>}
HandlerSections == {<<"A">>, <<"Z">>}
Regenerated == {<<"#", " ", "A", NL, "z">>}
Instructions == {<<"p">>}

\* the session a request would write to has room for one more history entry
HandlerRoom(s, session_id) ==
    (~Falsy(session_id) /\ session_id[1] \in DOMAIN s)
        => Len(s[session_id[1]].history) < MaxHistory

handler_others == <<threads, req_design, req_section, located, merged, pc, locals,
                    db, now, written, handle, request>>

\* a section request leaves request.previous_design and request.section_name
\* in req_design and req_section
section_request_others == <<threads, located, merged, pc, locals, db, now, written,
                            handle, request>>

RefineDesign ==
    \E instruction \in Instructions, refined_design \in Docs, session_id \in OptIds :
      \E uuid \in (IF Falsy(session_id) THEN uuid4(sessions) ELSE {""}) :
        /\ HandlerRoom(sessions, session_id)
        /\ \E r \in {refine_design(sessions, instruction, refined_design, session_id, uuid)} :
               /\ sessions' = r.sessions
               /\ last' = Call("refine", session_id, instruction, refined_design, TRUE,
                               TRUE, Some(r.ret), None)
        /\ UNCHANGED <<section_sessions, handler_others>>

\* ai_client.generate raises: the handler answers 503/500 and stores nothing
RefineDesignFails ==
    \E instruction \in Instructions, session_id \in OptIds :
        /\ last' = Call("refine", session_id, instruction, <<>>, TRUE, FALSE, None, None)
        /\ UNCHANGED <<sessions, section_sessions, handler_others>>

RegenerateSection ==
    \E previous_design \in HandlerDesigns, name \in HandlerSections,
       regenerated \in Regenerated :
      \E updated_design \in {updated_design_of(previous_design, name, regenerated)} :
        \E instruction \in Instructions, session_id \in OptIds :
          \E uuid \in (IF Falsy(session_id) THEN uuid4(section_sessions) ELSE {""}) :
            /\ HandlerRoom(section_sessions, session_id)
            /\ \E r \in {regenerate_section(section_sessions, instruction,
                                           updated_design, session_id, uuid)} :
                   /\ section_sessions' = r.sessions
                   /\ last' = Call("section", session_id, instruction, updated_design,
                                   TRUE, TRUE, Some(r.ret), None)
            /\ req_design' = previous_design
            /\ req_section' = name
            /\ UNCHANGED <<sessions, section_request_others>>

RegenerateSectionFails ==
    \E instruction \in Instructions, session_id \in OptIds :
        /\ last' = Call("section", session_id, instruction, <<>>, TRUE, FALSE, None, None)
        /\ UNCHANGED <<sessions, section_sessions, handler_others>>

NextHandlers ==
    \/ RefineDesign
    \/ RefineDesignFails
    \/ RegenerateSection
    \/ RegenerateSectionFails

SpecHandlers == Init /\ [][NextHandlers]_vars

\* ============================================ locate then merge (SpecSection)
LineSet ==
    { <<"#", " ", "A">>,
      <<"#", "#", " ", "a", " ">>,
      <<"#", "#", " ", "B">>,
      <<"#", "#", "#", " ", "A", "B">>,
      <<" ", "#", " ", "B">>,
      <<"#", " ", "A", " ", " ", "b">>,
      <<"#", " ", "a", " ", "b">>,
      <<"x">>,
      <<" ", "y", " ">>,
      <<>>,
      <<" ">> }

SectionNames == {<<"A">>, <<"B">>, <<"Z">>, <<"a", " ", "b">>}

RECURSIVE SeqsUpTo(_, _)
SeqsUpTo(S, n) ==
    IF n = 0 THEN {<<>>}
    ELSE LET shorter == SeqsUpTo(S, n - 1)
         IN  shorter \cup {Append(q, x) : q \in shorter, x \in S}

Markdowns == {join(<<NL>>, lines) : lines \in SeqsUpTo(LineSet, MaxLines)}

InitSection ==
    /\ sessions = EmptyDict
    /\ section_sessions = EmptyDict
    /\ last = NoCall
    /\ threads = IdleThreads
    /\ req_design \in Markdowns
    /\ req_section \in SectionNames
    /\ located = <<>>
    /\ merged = <<>>
    /\ pc = "locate"
    /\ locals = NoLocals
    /\ db = {}
    /\ now = StartTime
    /\ written = NothingWritten
    /\ handle = NoHandle
    /\ request = NoRequest

section_others == <<sessions, section_sessions, last, threads, req_design, req_section,
                    db, now, written, handle, request>>

Locate ==
    /\ pc = "locate"
    /\ located' = extract_section_from_markdown(req_design, req_section)
    /\ locals' = extract_locals(req_design, req_section)
    /\ pc' = "merge"
    /\ UNCHANGED <<merged, section_others>>

Merge ==
    /\ pc = "merge"
    /\ merged' = merge_section_into_design(located[1], located[2], located[3])
    /\ pc' = "done"
    /\ UNCHANGED <<located, locals, section_others>>

NextSection == Locate \/ Merge

SpecSection == InitSection /\ [][NextSection]_vars

\* ================================================ ReferenceStore (SpecCache)
\* A row of the table holds query_hash, query_text, references_json and
\* expires_at (id and created_at are read by no statement). The table is the
\* set of its rows; a list of references is a sequence of reference records.

\* hashlib.md5(query.encode()).hexdigest(): a digest, distinct for the distinct
\* queries of the model
_hash_query(query) == <<"md5", query>>

\* json.dumps of a list: brackets around the elements, a comma between two
json_dumps(references) ==
    IF references = <<>> THEN <<"[", "]">>
    ELSE [i \in 1..(2 * Len(references) + 1) |->
             IF i = 1 THEN "["
             ELSE IF i = 2 * Len(references) + 1 THEN "]"
             ELSE IF i % 2 = 0 THEN references[i \div 2]
             ELSE ","]

\* json.loads of such a text
json_loads(text) ==
    IF Len(text) = 2 THEN <<>>
    ELSE [i \in 1..(Len(text) \div 2) |-> text[2 * i]]

\* datetime.isoformat(): date, the separator 'T', time of day
isoformat(t) == [date |-> t \div TicksPerDay, sep |-> "T", time |-> t % TicksPerDay]

\* the text sqlite3 binds a datetime parameter as: date, a space, time of day
adapt_datetime(t) == [date |-> t \div TicksPerDay, sep |-> " ", time |-> t % TicksPerDay]

\* datetime.fromisoformat(text)
fromisoformat(text) == text.date * TicksPerDay + text.time

\* `a < b` on two TEXT values of this layout: character by character, and the
\* space sorts before 'T'
text_less(a, b) ==
    \/ a.date < b.date
    \/ /\ a.date = b.date
       /\ \/ a.sep = " " /\ b.sep = "T"
          \/ a.sep = b.sep /\ a.time < b.time

\* the name every statement gives the table, unquoted
TableName == "references"

\* words SQLite reads as keywords only, never as the name of a table
SqlReserved == {"references", "table", "select", "from", "where", "index"}

\* cursor.execute(statement) raises sqlite3.OperationalError (syntax error)
\* unless the statement parses
statement_parses == TableName \notin SqlReserved

\* The step of a call at which the backing store fails (the file cannot be
\* opened, the statement or the commit meets an I/O error, a stored value does
\* not decode, the eviction's statement fails), or "none".
GetFaults == {"none", "open", "read", "parse", "evict"}
SetFaults == {"none", "open", "write", "commit"}

\* Each operation below gives the rows afterwards, `failed`, whether an
\* exception was met and logged inside it, and `held`, the number of
\* connections it opened and had not closed when it returned.

\* _delete: connect, DELETE FROM references WHERE query_hash = ?, commit,
\* close; errors logged and swallowed
_delete(store, query_hash, fault) ==
    IF fault = "evict" \/ ~statement_parses
    THEN [db |-> store, failed |-> TRUE, held |-> 1]
    ELSE [db |-> {r \in store : r.query_hash # query_hash}, failed |-> FALSE,
          held |-> 0]

\* _cleanup_expired: connect, DELETE FROM references WHERE expires_at < ?
\* with datetime.now() bound, commit, close; errors logged and swallowed
_cleanup_expired(store, t) ==
    IF ~statement_parses THEN [db |-> store, failed |-> TRUE, held |-> 1]
    ELSE [db |-> {r \in store : ~text_less(r.expires_at, adapt_datetime(t))},
          failed |-> FALSE, held |-> 0]

\* _init_db: connect, CREATE TABLE IF NOT EXISTS references ..., the two
\* indexes, commit, close, then _cleanup_expired(); an error of the CREATE
\* statements is not caught
_init_db(store, t) ==
    IF ~statement_parses
    THEN [db |-> store, raised |-> TRUE, failed |-> TRUE, held |-> 1]
    ELSE LET swept == _cleanup_expired(store, t)
         IN  [db |-> swept.db, raised |-> FALSE, failed |-> swept.failed,
              held |-> swept.held]

\* the try block of get: connect, SELECT ... WHERE query_hash = ?, fetchone,
\* close, then the expiry test; error tells whether an exception left it
get_try(store, query, t, fault) ==
    LET query_hash == _hash_query(query)
        rows == {r \in store : r.query_hash = query_hash}
    IN  IF fault = "open"
        THEN [db |-> store, ret |-> None, error |-> TRUE, held |-> 0, evict_failed |-> FALSE]
        ELSE IF fault = "read" \/ ~statement_parses
        THEN [db |-> store, ret |-> None, error |-> TRUE, held |-> 1, evict_failed |-> FALSE]
        ELSE IF rows = {}
        THEN [db |-> store, ret |-> None, error |-> FALSE, held |-> 0, evict_failed |-> FALSE]
        ELSE IF fault = "parse"
        THEN [db |-> store, ret |-> None, error |-> TRUE, held |-> 0, evict_failed |-> FALSE]
        ELSE LET row == CHOOSE r \in rows : TRUE
             IN  IF fromisoformat(row.expires_at) > t
                 THEN [db |-> store, ret |-> Some(json_loads(row.references_json)),
                       error |-> FALSE, held |-> 0, evict_failed |-> FALSE]
                 ELSE LET evicted == _delete(store, query_hash, fault)
                      IN  [db |-> evicted.db, ret |-> None, error |-> FALSE,
                           held |-> evicted.held, evict_failed |-> evicted.failed]

\* get without its except clause: the exception reaches the caller
get_raising(store, query, t, fault) ==
    LET r == get_try(store, query, t, fault)
    IN  [db |-> r.db, ret |-> r.ret, raised |-> r.error,
         failed |-> r.error \/ r.evict_failed, held |-> r.held]

\* ReferenceStore.get(query) at time t: the value returned is None or the
\* list; `except Exception` logs the error and returns None
get(store, query, t, fault) ==
    LET r == get_try(store, query, t, fault)
    IN  [db |-> r.db, ret |-> IF r.error THEN None ELSE r.ret, raised |-> FALSE,
         failed |-> r.error \/ r.evict_failed, held |-> r.held]

\* the try block of set: connect, json.dumps, INSERT OR REPLACE on the UNIQUE
\* column query_hash, commit, close
set_try(store, query, references, t, fault) ==
    LET query_hash == _hash_query(query)
        expires_at == t + Expiry
    IN  IF fault = "open" THEN [db |-> store, error |-> TRUE, held |-> 0]
        ELSE IF fault \in {"write", "commit"} \/ ~statement_parses
        THEN [db |-> store, error |-> TRUE, held |-> 1]
        ELSE [db |-> {r \in store : r.query_hash # query_hash}
                     \cup {[query_hash |-> query_hash,
                            query_text |-> query,
                            references_json |-> json_dumps(references),
                            expires_at |-> isoformat(expires_at)]},
              error |-> FALSE, held |-> 0]

\* ReferenceStore.set(query, references) at time t; `except Exception` logs
\* the error and the call returns
set(store, query, references, t, fault) ==
    LET r == set_try(store, query, references, t, fault)
    IN  [db |-> r.db, raised |-> FALSE, failed |-> r.error, held |-> r.held]

\* the lists callers cache
ReferenceLists == {<<"r1", "r2">>, <<"r2", "r1">>}

\* The database file outlives the process: at the start it holds, for each
\* query of CachedQueries, no row or one row in the table's layout that expired a day ago,
\* expired a tick ago (the same calendar day) or expires a tick from now.
ExistingRow(query, expires_at) ==
    [query_hash |-> _hash_query(query),
     query_text |-> query,
     references_json |-> json_dumps(<<"r0">>),
     expires_at |-> isoformat(expires_at)]

ExistingExpiries == {StartTime - TicksPerDay, StartTime - 1, StartTime + 1}

ExistingStores ==
    {rows \in SUBSET {ExistingRow(q, e) : q \in CachedQueries, e \in ExistingExpiries} :
        \A r1, r2 \in rows : r1.query_hash = r2.query_hash => r1 = r2}

\* the instants at which calls are made: the start, a tick later, and the two
\* instants one Expiry after those
Instants == {StartTime, StartTime + 1, StartTime + Expiry, StartTime + Expiry + 1}

CacheCall(op, query, references, got, raised, fault, failed, held) ==
    [op |-> op, query |-> query, references |-> references, got |-> got,
     raised |-> raised, fault |-> fault, failed |-> failed, held |-> held]

InitCache ==
    /\ sessions = EmptyDict
    /\ section_sessions = EmptyDict
    /\ last = NoCall
    /\ threads = IdleThreads
    /\ req_design = <<>>
    /\ req_section = <<>>
    /\ located = <<>>
    /\ merged = <<>>
    /\ pc = "idle"
    /\ locals = NoLocals
    /\ db \in ExistingStores
    /\ now = StartTime
    /\ written = NothingWritten
    /\ handle = NoHandle
    /\ request = NoRequest

cache_others == <<sessions, section_sessions, threads, req_design, req_section,
                  located, merged, pc, locals, handle, request>>

\* ReferenceStore(db_path): __init__ runs _init_db
NewReferenceStore ==
    \E r \in {_init_db(db, now)} :
        /\ db' = r.db
        /\ last' = CacheCall("init", "", <<>>, None, r.raised, "none", r.failed, r.held)
        /\ UNCHANGED <<now, written, cache_others>>

\* get and set are taken as the methods they are, on an object whose db_path
\* names the database file
Get ==
    \E query \in Queries, fault \in GetFaults :
        \E r \in {get(db, query, now, fault)} :
            /\ db' = r.db
            /\ last' = CacheCall("get", query, <<>>, r.ret, r.raised, fault, r.failed,
                                  r.held)
            /\ UNCHANGED <<now, written, cache_others>>

\* written keeps the last set call that met no failure of the backing store
Set ==
    \E query \in CachedQueries, references \in ReferenceLists, fault \in SetFaults :
        \E r \in {set(db, query, references, now, fault)} :
            /\ db' = r.db
            /\ written' = IF fault # "none" THEN written
                          ELSE [written EXCEPT ![query] =
                                   Some([references |-> references, at |-> now])]
            /\ last' = CacheCall("set", query, references, None, r.raised, fault,
                                  r.failed, r.held)
            /\ UNCHANGED <<now, cache_others>>

\* time passes between two calls
Tick ==
    \E t \in Instants :
        /\ t > now
        /\ now' = t
        /\ UNCHANGED <<db, last, written, cache_others>>

NextCache == NewReferenceStore \/ Get \/ Set \/ Tick

SpecCache == InitCache /\ [][NextCache]_vars

\* ============================== get and set running together (SpecRace)
\* Each call opens its own connection, and SQLite runs one statement at a
\* time, so the steps that interleave are the statements: get's SELECT
\* (lines 88-98), get's expiry test with the DELETE of _delete (100-114,
\* 151-160) and set's INSERT OR REPLACE (131-144). threads holds the two
\* calls in flight: their position, their arguments and the row get read.
\* stale records that the store's row for the query had expired when get's
\* SELECT was issued.
RaceIdle ==
    [get |-> [pc |-> "idle", query |-> "", row |-> None, error |-> FALSE,
              stale |-> FALSE, ret |-> None],
     set |-> [pc |-> "idle", query |-> "", references |-> <<>>, at |-> 0]]

\* cursor.fetchone() of the SELECT by query_hash
fetchone(store, query_hash) ==
    LET rows == {r \in store : r.query_hash = query_hash}
    IN  IF rows = {} THEN None ELSE Some(CHOOSE r \in rows : TRUE)

InitRace ==
    /\ sessions = EmptyDict
    /\ section_sessions = EmptyDict
    /\ last = NoCall
    /\ threads = RaceIdle
    /\ req_design = <<>>
    /\ req_section = <<>>
    /\ located = <<>>
    /\ merged = <<>>
    /\ pc = "idle"
    /\ locals = NoLocals
    /\ db \in ExistingStores
    /\ now = StartTime
    /\ written = NothingWritten
    /\ handle = NoHandle
    /\ request = NoRequest

race_others == <<sessions, section_sessions, req_design, req_section, located,
                 merged, pc, locals, handle, request>>

\* get(query) up to conn.close() at line 98; error tells that the SELECT
\* raised, which leaves the connection open
GetRead ==
    \E query \in CachedQueries :
        /\ threads.get.pc = "idle"
        /\ LET row == fetchone(db, _hash_query(query))
               stale == row # None /\ ~(fromisoformat(row[1].expires_at) > now)
           IN  threads' = [threads EXCEPT !.get =
                   [pc |-> "read", query |-> query,
                    row |-> IF statement_parses THEN row ELSE None,
                    error |-> ~statement_parses, stale |-> stale, ret |-> None]]
        /\ last' = CacheCall("read", query, <<>>, None, FALSE, "none",
                             ~statement_parses, IF statement_parses THEN 0 ELSE 1)
        /\ UNCHANGED <<db, now, written, race_others>>

\* get from line 100: the except clause after a SELECT that raised, no row,
\* a live row, or an expired row and _delete
GetFinish ==
    /\ threads.get.pc = "read"
    /\ LET row == threads.get.row
           live == row # None /\ fromisoformat(row[1].expires_at) > now
           evicted == IF threads.get.error
                      THEN [db |-> db, failed |-> TRUE, held |-> 1]
                      ELSE IF row = None \/ live
                      THEN [db |-> db, failed |-> FALSE, held |-> 0]
                      ELSE _delete(db, row[1].query_hash, "none")
           ret == IF live THEN Some(json_loads(row[1].references_json)) ELSE None
       IN  /\ db' = evicted.db
           /\ threads' = [threads EXCEPT !.get.pc = "done", !.get.ret = ret]
           /\ last' = CacheCall("get", threads.get.query, <<>>, ret, FALSE, "none",
                                evicted.failed, evicted.held)
    /\ UNCHANGED <<now, written, race_others>>

\* set(query, references): one statement and its commit
SetWrite ==
    \E query \in CachedQueries, references \in ReferenceLists :
        /\ threads.set.pc = "idle"
        /\ \E r \in {set(db, query, references, now, "none")} :
               /\ db' = r.db
               /\ last' = CacheCall("set", query, references, None, r.raised, "none",
                                    r.failed, r.held)
        /\ threads' = [threads EXCEPT !.set =
               [pc |-> "done", query |-> query, references |-> references, at |-> now]]
        /\ written' = [written EXCEPT ![query] =
                          Some([references |-> references, at |-> now])]
        /\ UNCHANGED <<now, race_others>>

\* both calls have returned; the next two can be made
BothReturned ==
    /\ threads.get.pc = "done"
    /\ threads.set.pc = "done"
    /\ threads' = RaceIdle
    /\ UNCHANGED <<db, now, last, written, race_others>>

RaceTick ==
    \E t \in Instants :
        /\ t > now
        /\ now' = t
        /\ UNCHANGED <<db, last, written, threads, race_others>>

NextRace == GetRead \/ GetFinish \/ SetWrite \/ BothReturned \/ RaceTick

SpecRace == InitRace /\ [][NextRace]_vars

\* ============================== the retrieval handler (SpecRetrieve)
\* retrieve_references(request) of api/retrieve_refs.py, a step per call it
\* makes. request holds the request being served: its position, its
\* user_input, the calls made so far (events), what get saw and returned,
\* the search results, the summaries collected and the response.
\* reference_store is taken as an object whose db_path names the database
\* file, as in SpecCache.
SearchResultLists == {<<>>, <<"r1">>, <<"r1", "r2">>, <<"r2", "r1">>}

\* the confidence_score a summary carries
Confidences == {1, 2}

\* list.sort(key=confidence_score, reverse=True): descending and stable
RECURSIVE sort_by_confidence(_)
sort_by_confidence(summarized_refs) ==
    IF summarized_refs = <<>> THEN <<>>
    ELSE LET x == Head(summarized_refs)
             rest == sort_by_confidence(Tail(summarized_refs))
             k == Cardinality({i \in 1..Len(rest) :
                                  rest[i].confidence_score > x.confidence_score})
         IN  SubSeq(rest, 1, k) \o <<x>> \o SubSeq(rest, k + 1, Len(rest))

\* `if cached_refs:` (line 41): None and the empty list are both false
truthy(cached_refs) == cached_refs # None /\ cached_refs[1] # <<>>

\* `if not search_results:` (line 55) returns an empty response at once
after_search(search_results) == IF search_results = <<>> THEN "respond" ELSE "summarize"

\* a handler that caches only when a summary succeeded
after_summaries_skip_empty(summarized_refs) ==
    IF summarized_refs = <<>> THEN "respond" ELSE "set"

\* after the loop the list is sorted and set is called (lines 96-99)
after_summaries(summarized_refs) == "set"

\* what is stored for a summary: the reference it is about
titles(summarized_refs) == [i \in 1..Len(summarized_refs) |-> summarized_refs[i].title]

\* a call the handler made, as events keeps it
Event(call, query) == [call |-> call, query |-> query]

retrieve_others == <<sessions, section_sessions, threads, req_design, req_section,
                     located, merged, pc, locals, handle, written>>

\* POST /api/retrieve_refs arrives; the handler is entered
Receive ==
    \E user_input \in CachedQueries :
        /\ request.pc \in {"none", "done"}
        /\ request' = [pc |-> "get", user_input |-> user_input, events |-> <<>>,
                       entry_live |-> FALSE, cached_refs |-> None,
                       search_results |-> <<>>, num_results |-> 0,
                       summarized_refs |-> <<>>,
                       status |-> 0, references |-> <<>>]
        /\ UNCHANGED <<db, now, last, retrieve_others>>

\* cached_refs = reference_store.get(request.user_input); entry_live records
\* whether the store held an unexpired row for the query at this call
HandlerGet ==
    /\ request.pc = "get"
    /\ \E r \in {get(db, request.user_input, now, "none")} :
           /\ db' = r.db
           /\ last' = CacheCall("get", request.user_input, <<>>, r.ret, r.raised,
                                "none", r.failed, r.held)
           /\ request' = [request EXCEPT
                  !.pc = IF truthy(r.ret) THEN "respond" ELSE "search",
                  !.events = Append(@, Event("get", request.user_input)),
                  !.entry_live =
                      \E row \in db : /\ row.query_hash = _hash_query(request.user_input)
                                      /\ fromisoformat(row.expires_at) > now,
                  !.cached_refs = r.ret,
                  !.references = IF truthy(r.ret) THEN r.ret[1] ELSE <<>>]
    /\ UNCHANGED <<now, retrieve_others>>

\* search_results = retriever.search(...), which returns [] on any failure
Search ==
    \E search_results \in SearchResultLists :
        /\ request.pc = "search"
        /\ request' = [request EXCEPT !.pc = after_search(search_results),
                                      !.events = Append(@, Event("search", request.user_input)),
                                      !.search_results = search_results,
                                      !.num_results = Len(search_results)]
        /\ UNCHANGED <<db, now, last, retrieve_others>>

\* one turn of the loop: summarizer.summarize returns a summary or None
Summarize ==
    /\ request.pc = "summarize"
    /\ LET result == Head(request.search_results)
       IN  \E ok \in BOOLEAN, confidence_score \in Confidences :
               LET summarized_refs ==
                       IF ok THEN Append(request.summarized_refs,
                                         [title |-> result,
                                          confidence_score |-> confidence_score])
                       ELSE request.summarized_refs
               IN  request' = [request EXCEPT
                       !.events = Append(@, Event("summarize", request.user_input)),
                       !.search_results = Tail(@),
                       !.summarized_refs =
                           IF Len(request.search_results) = 1
                           THEN sort_by_confidence(summarized_refs)
                           ELSE summarized_refs,
                       !.pc = IF Len(request.search_results) = 1
                              THEN after_summaries(summarized_refs)
                              ELSE "summarize"]
    /\ UNCHANGED <<db, now, last, retrieve_others>>

\* reference_store.set(request.user_input, summarized_refs)
HandlerSet ==
    /\ request.pc = "set"
    /\ LET references == titles(request.summarized_refs)
       IN  /\ \E r \in {set(db, request.user_input, references, now, "none")} :
                  /\ db' = r.db
                  /\ last' = CacheCall("set", request.user_input, references, None,
                                       r.raised, "none", r.failed, r.held)
           /\ request' = [request EXCEPT !.pc = "respond",
                                         !.events = Append(@, Event("set", request.user_input)),
                                         !.references = references]
    /\ UNCHANGED <<now, retrieve_others>>

\* the response models are built and returned; a reference that does not
\* validate as ReferenceHighlight raises, which the handler turns into a 500
Respond ==
    /\ request.pc = "respond"
    /\ \E valid \in BOOLEAN :
           /\ ~valid => request.references # <<>>
           /\ request' = [request EXCEPT
                  !.pc = "done",
                  !.events = Append(@, Event("respond", request.user_input)),
                  !.status = IF valid THEN 200 ELSE 500,
                  !.references = IF valid THEN @ ELSE <<>>]
    /\ UNCHANGED <<db, now, last, retrieve_others>>

RetrieveTick ==
    \E t \in Instants :
        /\ t > now
        /\ now' = t
        /\ UNCHANGED <<db, last, request, retrieve_others>>

NextRetrieve ==
    Receive \/ HandlerGet \/ Search \/ Summarize \/ HandlerSet \/ Respond \/ RetrieveTick

SpecRetrieve == InitCache /\ [][NextRetrieve]_vars

\* ============================== values handed out by the store (SpecAlias)
\* get_session returns the SessionContext object the dict holds, and to_dict
\* puts that object's history list into the dict it builds. A handle is such
\* a value in a caller's hands: kind tells which of the two, ref the session
\* id it was obtained for. It is attached while the store still holds the
\* object it refers to; after the store replaced or dropped that object, obj
\* is the object the handle keeps alive. own is the dict's latest_design entry.
AliasIds == {"s1"}

Handle(kind, ref, session) ==
    [kind |-> kind, ref |-> ref, attached |-> TRUE, obj |-> session,
     own |-> session.latest_design]

\* the SessionContext the handle refers to
Referent(h, s) == IF h.attached THEN s[h.ref] ELSE h.obj

\* the handle after the store put a new object under id or removed the old one
Detached(h, s, id) ==
    IF h.kind # "none" /\ h.attached /\ h.ref = id /\ id \in DOMAIN s
    THEN [h EXCEPT !.attached = FALSE, !.obj = s[id]]
    ELSE h

alias_others == <<section_sessions, threads, req_design, req_section, located,
                  merged, pc, locals, db, now, written, request>>

\* session = context_manager.get_session(id), or session.to_dict()
CallerGet ==
    \E id \in AliasIds \cap DOMAIN sessions, kind \in {"object", "dict"} :
        \E r \in {get_session(sessions, id)} :
            /\ handle' = Handle(kind, id, r.ret[1])
            /\ last' = Call("get", Some(id), <<>>, <<>>, FALSE, TRUE, None, r.ret)
            /\ UNCHANGED <<sessions, alias_others>>

\* the caller assigns latest_design or appends to history on what it holds
CallerWrites ==
    \E design \in Docs, field \in {"latest_design", "history"} :
        /\ handle.kind # "none"
        /\ LET o == Referent(handle, sessions)
               written_to == IF field = "history"
                             THEN [o EXCEPT !.history = Append(@, design)]
                             ELSE IF handle.kind = "object"
                             THEN [o EXCEPT !.latest_design = design]
                             ELSE o
           IN  /\ field = "history" => Len(o.history) < MaxHistory
               /\ sessions' = IF handle.attached
                              THEN [sessions EXCEPT ![handle.ref] = written_to]
                              ELSE sessions
               /\ handle' = [handle EXCEPT
                                !.obj = written_to,
                                !.own = IF handle.kind = "dict" /\ field = "latest_design"
                                        THEN design ELSE @]
        /\ last' = Call("caller", Some(handle.ref), <<>>, design, field = "history",
                        TRUE, None, None)
        /\ UNCHANGED alias_others

\* the store's own operations while a caller holds a handle
StoreCreate ==
    \E id \in AliasIds, base_prompt \in Prompts, design \in Docs :
        \E r \in {create_session(sessions, base_prompt, design, Some(id), "")} :
            /\ sessions' = r.sessions
            /\ handle' = Detached(handle, sessions, id)
            /\ last' = Call("create", Some(id), base_prompt, design, FALSE, TRUE,
                            Some(r.ret), None)
            /\ UNCHANGED alias_others

StoreUpdate ==
    \E id \in AliasIds, design \in Docs, add \in BOOLEAN :
        /\ Room(sessions, id)
        /\ \E r \in {update_session(sessions, id, design, add)} :
               /\ sessions' = r.sessions
               /\ last' = Call("update", Some(id), <<>>, design, add, r.ret, None, None)
        /\ UNCHANGED <<handle, alias_others>>

StoreDelete ==
    \E id \in AliasIds :
        \E r \in {delete_session(sessions, id)} :
            /\ sessions' = r.sessions
            /\ handle' = Detached(handle, sessions, id)
            /\ last' = Call("delete", Some(id), <<>>, <<>>, FALSE, r.ret, None, None)
            /\ UNCHANGED alias_others

NextAlias == CallerGet \/ CallerWrites \/ StoreCreate \/ StoreUpdate \/ StoreDelete

SpecAlias == Init /\ [][NextAlias]_vars

\* ===================================================== ContextManager claims
\* the session id a call is addressed to: the id it was given, or the id it
\* returned when it allocated one
Target(c) == IF c.rid # None THEN c.rid[1] ELSE c.session_id[1]

\* C2: create called with a caller-supplied id that already exists fails
\* (AlreadyExists) and leaves the existing session unchanged; create never
\* overwrites an existing session.
CreateNeverOverwrites ==
    [][(/\ last'.op = "create"
        /\ ~Falsy(last'.session_id)
        /\ last'.session_id[1] \in DOMAIN sessions)
       => (/\ ~last'.ok
           /\ sessions' = sessions)]_vars

\* C4: update(id, new, append_history) on an existing session returns ok and
\* sets latest_design to new; history becomes H followed by the old latest
\* document when append_history is true and stays H when it is false.
UpdateSemantics ==
    [][(last'.op = "update" /\ last'.session_id[1] \in DOMAIN sessions)
       => LET id == last'.session_id[1]
              old == sessions[id]
          IN  /\ last'.ok
              /\ DOMAIN sessions' = DOMAIN sessions
              /\ sessions'[id].latest_design = last'.design
              /\ sessions'[id].history =
                    IF last'.add THEN Append(old.history, old.latest_design)
                                 ELSE old.history]_vars

UpdateAppendedWitness ==
    /\ last.op = "update" /\ last.add /\ last.ok
    /\ LET s == sessions[last.session_id[1]]
       IN  /\ Len(s.history) >= 2
           /\ s.history[Len(s.history)] # s.latest_design
           /\ s.latest_design = last.design

\* C5: get_or_create with an id that exists returns that id, sets
\* latest_design to the document and leaves history and base_prompt as they
\* were; with an absent or unknown id it creates a session with that document
\* as latest_design and an empty history.
GetOrCreateSemantics ==
    [][(last'.op = "get_or_create")
       => LET arg == last'.session_id
              rid == last'.rid[1]
          IN  IF ~Falsy(arg) /\ arg[1] \in DOMAIN sessions
              THEN /\ rid = arg[1]
                   /\ DOMAIN sessions' = DOMAIN sessions
                   /\ sessions'[rid].latest_design = last'.design
                   /\ sessions'[rid].history = sessions[rid].history
                   /\ sessions'[rid].base_prompt = sessions[rid].base_prompt
              ELSE /\ rid \notin DOMAIN sessions
                   /\ ~Falsy(arg) => rid = arg[1]
                   /\ DOMAIN sessions' = DOMAIN sessions \cup {rid}
                   /\ sessions'[rid].latest_design = last'.design
                   /\ sessions'[rid].history = <<>>
                   /\ sessions'[rid].base_prompt = last'.base_prompt]_vars

GetOrCreateExistingWitness ==
    /\ last.op = "get_or_create"
    /\ last.session_id = last.rid
    /\ LET s == sessions[last.rid[1]]
       IN  /\ s.history # <<>>
           /\ s.base_prompt # last.base_prompt
           /\ s.latest_design = last.design

\* C6: the history of a live session is append-only over create, get, update,
\* get_or_create and delete: its previous contents are a prefix of its current
\* contents and its length changes only by +1, only in update with
\* append_history = true.
HistoryAppendOnly ==
    [][\A id \in (DOMAIN sessions) \cap (DOMAIN sessions') :
          LET h == sessions[id].history
              h2 == sessions'[id].history
          IN  /\ Len(h) <= Len(h2)
              /\ SubSeq(h2, 1, Len(h)) = h
              /\ Len(h2) # Len(h) =>
                    /\ Len(h2) = Len(h) + 1
                    /\ last'.op = "update" /\ last'.add
                    /\ last'.session_id = Some(id)]_vars

\* C7: a create, update, get_or_create or delete addressed to one session id
\* leaves every other id's session (existence, latest_design, history,
\* base_prompt) exactly as it was.
SessionIsolation ==
    [][(last'.op \in {"create", "get", "update", "get_or_create", "delete"})
       => \A b \in Ids \ {Target(last')} :
             /\ b \in DOMAIN sessions <=> b \in DOMAIN sessions'
             /\ b \in DOMAIN sessions => sessions'[b] = sessions[b]]_vars

IsolationWitness ==
    /\ last.op = "delete" /\ last.ok
    /\ \E b \in DOMAIN sessions :
          b # last.session_id[1] /\ sessions[b].history # <<>>

\* C8: get, update and delete with a session id that is not in the store
\* return NotFound (None / False) and leave the store unchanged; update on an
\* unknown id never creates a session.
UnknownIdNotFound ==
    [][(/\ last'.op \in {"get", "update", "delete"}
        /\ last'.session_id[1] \notin DOMAIN sessions)
       => (/\ ~last'.ok
           /\ last'.got = None
           /\ sessions' = sessions)]_vars

UnknownUpdateWitness ==
    /\ last.op = "update" /\ ~last.ok
    /\ last.session_id[1] \in Ids
    /\ sessions # EmptyDict

\* C9: a session exists from its creation until delete(id): only a successful
\* delete(id) removes it and it removes exactly that session; an absent id
\* stays absent until a create or get_or_create, and meanwhile get, update and
\* delete on it return NotFound.
SessionLifetime ==
    [][/\ \A id \in (DOMAIN sessions) \ (DOMAIN sessions') :
             last'.op = "delete" /\ last'.session_id = Some(id) /\ last'.ok
       /\ \A id \in (DOMAIN sessions') \ (DOMAIN sessions) :
             last'.op \in {"create", "get_or_create"} /\ last'.rid = Some(id)
       /\ (last'.op = "delete" /\ last'.session_id[1] \in DOMAIN sessions)
             => /\ last'.ok
                /\ DOMAIN sessions' = (DOMAIN sessions) \ {last'.session_id[1]}
                /\ \A b \in DOMAIN sessions' : sessions'[b] = sessions[b]
       /\ (/\ last'.op \in {"get", "update", "delete"}
           /\ last'.session_id[1] \notin DOMAIN sessions)
             => ~last'.ok /\ last'.session_id[1] \notin DOMAIN sessions']_vars

DeletedWitness ==
    /\ last.op = "delete" /\ last.ok
    /\ last.session_id[1] \notin DOMAIN sessions
    /\ sessions # EmptyDict

\* ========================================================== handler claims
\* C1: after a refine or section-regeneration request the document it wrote is
\* latest_design and is not among the entries that request appended to the
\* session's history (history holds superseded documents only, never the
\* newest).
HistoryNeverHoldsNewest ==
    [][(last'.op \in {"refine", "section"} /\ last'.ok)
       => LET before == IF last'.op = "refine" THEN sessions ELSE section_sessions
              after == IF last'.op = "refine" THEN sessions' ELSE section_sessions'
              id == last'.rid[1]
              from == IF id \in DOMAIN before THEN Len(before[id].history) ELSE 0
              appended == SubSeq(after[id].history, from + 1, Len(after[id].history))
          IN  /\ after[id].latest_design = last'.design
              /\ (id \notin DOMAIN before \/ before[id].latest_design # last'.design)
                    => \A k \in 1..Len(appended) : appended[k] # last'.design]_vars

\* ====================================================== concurrency claims
ConcDone == \A t \in 1..NumThreads : threads[t].pc \in {"done", "not_found"}

SerialOrders(n) ==
    {f \in [1..n -> 1..n] : \A i, j \in 1..n : i # j => f[i] # f[j]}

RECURSIVE SerialUpdates(_, _, _)
SerialUpdates(s, order, k) ==
    IF k > NumThreads THEN s
    ELSE SerialUpdates(
             update_session(s, threads[order[k]].session_id,
                            threads[order[k]].design, TRUE).sessions,
             order, k + 1)

\* C3: when N update(id, d_i, append_history=true) calls run concurrently, no
\* history entry is dropped: the final store equals the result of the N calls
\* in some serial order.
NoLostUpdate ==
    ConcDone => \E order \in SerialOrders(NumThreads) :
                    sessions = SerialUpdates(ConcStore, order, 1)

\* ===================================================== SectionEngine claims
IsBlank(line) == strip(line) = <<>>
NonBlankLines(text) == SelectSeq(split(text), LAMBDA line : ~IsBlank(line))
Found == located[2] # <<>>

\* C10: for a document containing the section, merge applied to the three
\* parts returned by locate has the same non-blank lines as the document, line
\* for line.
RoundTripExact ==
    (pc = "done" /\ Found) => NonBlankLines(merged) = NonBlankLines(req_design)

\* C10 (amended): the non-blank lines are the same line for line, except that
\* the first non-blank line of each of before, section and after has lost its
\* leading whitespace and the last non-blank line of each its trailing
\* whitespace.
RoundTripUpToEdgeWhitespace ==
    (pc = "done" /\ Found) =>
        LET d == NonBlankLines(req_design)
            r == NonBlankLines(merged)
            nb == Len(NonBlankLines(located[1]))
            ns == Len(NonBlankLines(located[2]))
            firsts == {1, nb + 1, nb + ns + 1}
            lasts == {nb, nb + ns, Len(d)}
            expect(k) ==
                LET a == IF k \in firsts THEN lstrip(d[k], Whitespace) ELSE d[k]
                IN  IF k \in lasts THEN rstrip(a, Whitespace) ELSE a
        IN  /\ Len(r) = Len(d)
            /\ \A k \in 1..Len(d) : r[k] = expect(k)

RoundTripWitness ==
    /\ pc = "done" /\ Found
    /\ located[1] # <<>> /\ located[3] # <<>>
    /\ NonBlankLines(merged) # NonBlankLines(req_design)
    /\ Len(NonBlankLines(merged)) >= 3

\* ------------------------------------------------ headings, as the claims
\* use the word: a line whose first non-whitespace character is '#'; its level
\* is the number of '#' it starts with and its text is what follows them
DocLines == split(req_design)
IsHeading(line) == startswith(strip(line), <<"#">>)
HeadingLevel(line) == LeadingCount(strip(line), {"#"})
HeadingText(line) == strip(lstrip(strip(line), {"#"}))
Located == pc \in {"merge", "done"}

\* the least element of a non-empty set of line numbers
Least(S) == CHOOSE i \in S : \A j \in S : i <= j

\* C11: for a matched heading of level L at line i the section ends
\* immediately before the first line j > i that is a heading of level <= L,
\* or at the end of the document when there is none; the lines i .. j-1 are
\* the section and line j is the first line of after.
SectionEndsAtNextPeerHeading ==
    (Located /\ Found) =>
        LET i == locals.section_start
            n == Len(DocLines)
            peers == {j \in (i + 1)..n :
                         /\ IsHeading(DocLines[j])
                         /\ HeadingLevel(DocLines[j]) <= HeadingLevel(DocLines[i])}
            e == IF peers = {} THEN n + 1 ELSE Least(peers)
        IN  /\ locals.section_end = e
            /\ located[2] = join(<<NL>>, SubSeq(DocLines, i, e - 1))
            /\ located[3] = join(<<NL>>, SubSeq(DocLines, e, n))

\* the exact and the substring rule of the section lookup
ExactRule(line) ==
    IsHeading(line) /\ lower(HeadingText(line)) = lower(req_section)
SubstringRule(line) ==
    IsHeading(line) /\ contains(lower(req_section), lower(HeadingText(line)))

\* C12: locate selects the first heading whose text equals section_name
\* case-insensitively; only when no heading of the document matches exactly
\* does it select the first heading whose text contains section_name.
ExactBeforeSubstring ==
    Located =>
        LET n == Len(DocLines)
            exact == {i \in 1..n : ExactRule(DocLines[i])}
            sub == {i \in 1..n : SubstringRule(DocLines[i])}
        IN  /\ exact # {} => locals.section_start = Least(exact)
            /\ (exact = {} /\ sub # {}) => locals.section_start = Least(sub)

\* whitespace normalisation: runs of whitespace become one space and the ends
\* are trimmed
RECURSIVE Collapse(_)
Collapse(s) ==
    IF s = <<>> THEN <<>>
    ELSE IF s[1] \in Whitespace
         THEN LET rest == lstrip(s, Whitespace)
              IN  IF rest = <<>> THEN <<>> ELSE <<" ">> \o Collapse(rest)
         ELSE <<s[1]>> \o Collapse(Tail(s))
Normalized(s) == Collapse(strip(lower(s)))

\* a heading written from the first column whose text is section_name up to
\* letter case and the amount of whitespace
NormalizedExact(line) ==
    /\ startswith(line, <<"#">>)
    /\ Normalized(HeadingText(line)) = Normalized(req_section)

\* C13: a heading whose text differs from section_name only in letter case
\* and in the amount of whitespace between words or around the text is
\* matched by the exact rule: when the document has such a heading, locate
\* finds the section and the heading it selects is such a heading.
ExactMatchWhitespaceNormalized ==
    (Located /\ \E i \in 1..Len(DocLines) : NormalizedExact(DocLines[i]))
        => /\ Found
           /\ NormalizedExact(DocLines[locals.section_start])

\* C14: whenever locate finds a match, before, section and after are three
\* contiguous runs of the document's lines in document order that cover every
\* line exactly once: before is the lines preceding the matched heading,
\* section starts with the matched heading, after is the lines from the
\* section boundary to the end.
PartsPartitionDocument ==
    (Located /\ Found) =>
        LET n == Len(DocLines)
            s == locals.section_start
            e == locals.section_end
        IN  /\ 1 <= s /\ s < e /\ e <= n + 1
            /\ split(located[2])[1] = DocLines[s]
            /\ \E b \in 0..n, c \in 0..n :
                  /\ b = s - 1 /\ b + c = e - 1
                  /\ located[1] = join(<<NL>>, SubSeq(DocLines, 1, b))
                  /\ located[2] = join(<<NL>>, SubSeq(DocLines, b + 1, b + c))
                  /\ located[3] = join(<<NL>>, SubSeq(DocLines, b + c + 1, n))
            /\ (IF s = 1 THEN 0 ELSE Len(split(located[1])))
                 + Len(split(located[2]))
                 + (IF e = n + 1 THEN 0 ELSE Len(split(located[3]))) = n

PartitionWitness ==
    /\ Located /\ Found
    /\ locals.section_start = 2
    /\ locals.section_end = 3
    /\ Len(DocLines) = 3
    /\ located[1] # <<>> /\ located[3] # <<>>

\* C15: locate never fails: if no heading matches section_name by the exact
\* or the substring rule it returns (document, "", "") with the document
\* unmodified, and the returned section is empty if and only if no heading
\* matched.
EmptySectionIffNoMatch ==
    Located =>
        LET matched == \E i \in 1..Len(DocLines) :
                          \/ IsHeading(DocLines[i])
                             /\ Normalized(HeadingText(DocLines[i])) = Normalized(req_section)
                          \/ SubstringRule(DocLines[i])
        IN  /\ ~matched => located = <<req_design, <<>>, <<>>>>
            /\ (located[2] = <<>>) <=> ~matched

\* ------------------------------------------------------------ merge claims
\* the lines of a text without its leading and trailing blank lines
TrimBlankLines(text) ==
    LET ls == split(text)
        nb == {k \in 1..Len(ls) : ~IsBlank(ls[k])}
    IN  IF nb = {} THEN <<>>
        ELSE SubSeq(ls, Least(nb), CHOOSE k \in nb : \A j \in nb : j <= k)

\* the same lines with the first one's leading and the last one's trailing
\* whitespace removed
TrimEdges(ls) ==
    [k \in 1..Len(ls) |->
        LET a == IF k = 1 THEN lstrip(ls[k], Whitespace) ELSE ls[k]
        IN  IF k = Len(ls) THEN rstrip(a, Whitespace) ELSE a]

\* the parts in order, one empty line between adjacent parts
RECURSIVE BlankLineJoined(_)
BlankLineJoined(parts) ==
    IF parts = <<>> THEN <<>>
    ELSE IF Len(parts) = 1 THEN parts[1]
    ELSE parts[1] \o <<<<>>>> \o BlankLineJoined(Tail(parts))

MergeInputs == <<located[1], located[2], located[3]>>

\* C16: merge removes only leading and trailing blank lines from each input,
\* drops the inputs that are empty after trimming and joins the others in the
\* order before, new_section, after with exactly one blank line between
\* adjacent parts; no non-blank line of an input is altered, reordered or lost.
MergeTrimsBlankLinesOnly ==
    pc = "done" =>
        LET trimmed == [k \in 1..3 |-> TrimBlankLines(MergeInputs[k])]
            kept == SelectSeq(trimmed, LAMBDA part : part # <<>>)
        IN  merged = join(<<NL>>, BlankLineJoined(kept))

\* C16 (amended): each input additionally loses the leading whitespace of its
\* first non-blank line and the trailing whitespace of its last non-blank
\* line; the parts that remain are joined in order with exactly one blank line
\* between adjacent parts and every other line is unaltered.
MergeStripsWhitespace ==
    pc = "done" =>
        LET trimmed == [k \in 1..3 |-> TrimEdges(TrimBlankLines(MergeInputs[k]))]
            kept == SelectSeq(trimmed, LAMBDA part : part # <<>>)
        IN  merged = join(<<NL>>, BlankLineJoined(kept))

MergeWitness ==
    /\ pc = "done"
    /\ \A k \in 1..3 : TrimBlankLines(MergeInputs[k]) # <<>>
    /\ \E k \in 1..3 : TrimEdges(TrimBlankLines(MergeInputs[k])) # TrimBlankLines(MergeInputs[k])

\* ==================================================== ReferenceStore claims
\* a get, set or initialization during which the backing store did not fail
GetStep == last'.op = "get" /\ last'.fault = "none" /\ now' = now
SetStep == last'.op = "set" /\ last'.fault = "none" /\ now' = now
InitStep == last'.op = "init" /\ now' = now
Written(query) == IF query \in CachedQueries THEN written[query] ELSE None
RowsOf(store, query) == {r \in store : r.query_hash = _hash_query(query)}
ExpiresAt(r) == fromisoformat(r.expires_at)

\* C17: after set(q, refs) has returned, a get(q) made before the entry's
\* expiry and with no set for q in between returns a list equal to refs: the
\* same elements in the same order.
CacheRoundTrip ==
    [][(/\ GetStep
        /\ Written(last'.query) # None
        /\ now < Written(last'.query)[1].at + Expiry)
       => last'.got = Some(Written(last'.query)[1].references)]_vars

SingleRowUpsert ==
    [][/\ \A r1, r2 \in db' : r1.query_hash = r2.query_hash => r1 = r2
       /\ SetStep
             => \E r \in db' :
                   /\ RowsOf(db', last'.query) = {r}
                   /\ r.query_text = last'.query
                   /\ json_loads(r.references_json) = last'.references
                   /\ ExpiresAt(r) = now + Expiry]_vars

FailsOpen ==
    [][(last'.op \in {"get", "set"} /\ now' = now)
       => /\ ~last'.raised
          /\ (last'.op = "get" /\ last'.failed) => last'.got = None
          /\ (last'.op = "set" /\ last'.failed) => db' = db]_vars

FailsOpenWitness ==
    /\ last.op = "get" /\ last.fault = "open" /\ last.failed
    /\ ~last.raised /\ last.got = None
    /\ \E r \in RowsOf(db, last.query) : ExpiresAt(r) > now

\* C22: cache keys are derived from the raw query text with no normalization:
\* a get is a hit exactly for the identical string, so after set("Query", refs)
\* get("Query") is a hit while get("query") and get("Query ") are Misses
\* unless an entry was stored under those very strings.
KeysAreRawText ==
    [][GetStep
       => LET q == last'.query
          IN  /\ (Written(q) # None /\ now < Written(q)[1].at + Expiry)
                    => last'.got # None
              /\ last'.got # None
                    => \E r \in db : /\ r.query_text = q
                                     /\ json_loads(r.references_json) = last'.got[1]]_vars

\* no heading of the document matches the section name, by the exact or by
\* the substring rule
NoHeadingMatches ==
    \A i \in 1..Len(DocLines) :
        ~(\/ IsHeading(DocLines[i])
             /\ Normalized(HeadingText(DocLines[i])) = Normalized(req_section)
          \/ SubstringRule(DocLines[i]))

\* C23: when the requested section name matches no heading of the previous
\* document, the section-regeneration flow yields the original document
\* unchanged: the updated document it returns and stores as the latest
\* document equals the previous document up to blank-line normalization.
NotFoundLeavesDocument ==
    (last.op = "section" /\ last.ok /\ NoHeadingMatches)
        => /\ section_sessions[last.rid[1]].latest_design = last.design
           /\ NonBlankLines(last.design) = NonBlankLines(req_design)

IsPrefix(h, g) == Len(h) <= Len(g) /\ SubSeq(g, 1, Len(h)) = h

\* C28: sessions live in one store shared by the request handlers: a session
\* id returned by a refine request names the same session when it is given to
\* a later section-regeneration request, and the other way round, so the
\* history accumulated through one handler is continued by the other.
HandlersShareSessions ==
    [][/\ (/\ section_sessions' # section_sessions
           /\ ~Falsy(last'.session_id)
           /\ last'.session_id[1] \in DOMAIN sessions)
          => IsPrefix(sessions[last'.session_id[1]].history,
                      section_sessions'[last'.session_id[1]].history)
       /\ (/\ sessions' # sessions
           /\ ~Falsy(last'.session_id)
           /\ last'.session_id[1] \in DOMAIN section_sessions)
          => IsPrefix(section_sessions[last'.session_id[1]].history,
                      sessions'[last'.session_id[1]].history)]_vars

\* C30: the level locate fixes for the matched heading is an integer >= 1
\* equal to the heading's marker count, also for a heading line that begins
\* with whitespace, so a later heading of the same marker count is never
\* inside the section.
LevelIsMarkerCount ==
    (Located /\ Found) =>
        LET i == locals.section_start
        IN  /\ locals.current_level >= 1
            /\ locals.current_level = HeadingLevel(DocLines[i])
            /\ \A j \in (i + 1)..(locals.section_end - 1) :
                  ~(/\ IsHeading(DocLines[j])
                    /\ HeadingLevel(DocLines[j]) = HeadingLevel(DocLines[i]))

\* what a caller reads from the value it obtained from get
View ==
    IF handle.kind = "none" THEN None
    ELSE LET o == Referent(handle, sessions)
         IN  Some([latest_design |-> IF handle.kind = "dict" THEN handle.own
                                     ELSE o.latest_design,
                   history |-> o.history])

\* C29: a value obtained from get (or its dictionary form) is a snapshot:
\* nothing the caller does with it changes the latest document or the history
\* held in the store, and later operations of the store do not change a value
\* already returned.
GetReturnsSnapshot ==
    [][/\ last'.op = "caller" => sessions' = sessions
       /\ last'.op \in {"create", "update", "delete"} => View' = View]_vars

\* C25: every connection a cache operation opens (get, set, the lazy delete,
\* the startup sweep) is closed again on every exit path, the failing ones
\* included: no operation returns while a connection is still open.
ConnectionsReleased == last.op # "none" => last.held = 0

Calls(call) == {i \in 1..Len(request.events) : request.events[i].call = call}

Work == Calls("search") \cup Calls("summarize")

\* C24: in every retrieval request get is called first, before any external
\* search or summarization. In every request whose search returns at least
\* one result, set is called once, for the request's query, after the search
\* and every summarization and before the response is returned, also when
\* every summary failed. A request whose search returns nothing, or that is
\* answered from the cache, returns without calling set.
GetFirstSetAfterResults ==
    request.pc # "none" =>
        /\ request.events # <<>> => Calls("get") = {1}
        /\ \A i \in Calls("set") :
               /\ request.events[i].query = request.user_input
               /\ \A j \in Work : j < i
               /\ \A j \in Calls("respond") : i < j
        /\ request.pc = "done" =>
               /\ Calls("respond") = {Len(request.events)}
               /\ Cardinality(Calls("set")) = IF request.num_results > 0 THEN 1 ELSE 0
               /\ Cardinality(Calls("summarize")) = request.num_results

\* a request that searched, found results, lost a summary and answered
RetrieveWitness ==
    /\ request.pc = "done"
    /\ request.num_results = 2
    /\ Len(request.references) = 1
    /\ request.status = 200
    /\ Calls("set") = {5}

\* C24 as stated: every request that performs an external search calls set
\* for the same query after that work and before the response is returned.
SetAfterEverySearch ==
    (request.pc = "done" /\ Calls("search") # {}) =>
        \E i \in Calls("set") :
            /\ request.events[i].query = request.user_input
            /\ \A j \in Work : j < i
            /\ \A j \in Calls("respond") : i < j

====
